---------------------------- MODULE Spec2Model ----------------------------
(***************************************************************************)
(* A model of the SMV fault-injection tool: faults_injector.py,            *)
(* smv_utils.py and xml_parser.py of src/script.                           *)
(*                                                                         *)
(* The tool rewrites text, so text is modelled as what it is in Python: a  *)
(* string is a sequence of one-character strings, and every string         *)
(* operation the code uses (splitlines, strip, startswith, "in", split,    *)
(* join, the three regular expressions) is an operator over such           *)
(* sequences that computes what the Python operation computes.             *)
(***************************************************************************)
EXTENDS Integers, Sequences, FiniteSets, TLC

(***************************************************************************)
(* Python string primitives                                                *)
(***************************************************************************)

\* The characters str.strip() removes and the regex class \s matches (the
\* model's alphabet holds no other white space).
Whitespace == {" ", "\t", "\n"}

\* The regex class \w.
WordChars ==
    {"a","b","c","d","e","f","g","h","i","j","k","l","m","n","o","p","q","r",
     "s","t","u","v","w","x","y","z","A","B","C","D","E","F","G","H","I","J",
     "K","L","M","N","O","P","Q","R","S","T","U","V","W","X","Y","Z","0","1",
     "2","3","4","5","6","7","8","9","_"}

SetMin(S) == CHOOSE x \in S : \A y \in S : x <= y

SetMax(S) == CHOOSE x \in S : \A y \in S : x >= y

\* s[i:] of Python, with i a 1-based position.
Tail_from(s, i) == SubSeq(s, i, Len(s))

\* s.startswith(p, i-1): p occurs in s at position i.
MatchAt(s, i, p) ==
    /\ i >= 1
    /\ i + Len(p) - 1 <= Len(s)
    /\ SubSeq(s, i, i + Len(p) - 1) = p

\* s.startswith(p)
startswith(s, p) == MatchAt(s, 1, p)

\* s.find(p, from-1) + 1: the first position >= from where p occurs, 0 if none.
find(s, p, from) ==
    LET hits == {i \in from..(Len(s) - Len(p) + 1) : MatchAt(s, i, p)}
    IN  IF hits = {} THEN 0 ELSE SetMin(hits)

\* p in s
contains(s, p) == \E i \in 1..(Len(s) - Len(p) + 1) : MatchAt(s, i, p)

\* s.strip()
strip(s) ==
    LET keep == {i \in 1..Len(s) : s[i] \notin Whitespace}
    IN  IF keep = {} THEN <<>> ELSE SubSeq(s, SetMin(keep), SetMax(keep))

\* s.splitlines(keepends=True): the lines of s, each with its line break.
RECURSIVE splitlines(_)
splitlines(s) ==
    IF s = <<>> THEN <<>>
    ELSE LET k == find(s, <<"\n">>, 1)
         IN  IF k = 0 THEN <<s>>
             ELSE <<SubSeq(s, 1, k)>> \o splitlines(Tail_from(s, k + 1))

\* s.split('\n'): the pieces between line breaks, without them; never empty.
RECURSIVE split_nl(_)
split_nl(s) ==
    LET k == find(s, <<"\n">>, 1)
    IN  IF k = 0 THEN <<s>>
        ELSE <<SubSeq(s, 1, k - 1)>> \o split_nl(Tail_from(s, k + 1))

\* ''.join(parts)
RECURSIVE join(_)
join(parts) ==
    IF parts = <<>> THEN <<>> ELSE Head(parts) \o join(Tail(parts))

\* sep.join(parts)
RECURSIVE join_with(_, _)
join_with(sep, parts) ==
    IF parts = <<>> THEN <<>>
    ELSE IF Len(parts) = 1 THEN Head(parts)
    ELSE Head(parts) \o sep \o join_with(sep, Tail(parts))

\* list.insert(pos, x) with 0 <= pos <= len(list); pos is Python's 0-based index.
list_insert(lines, pos, x) ==
    SubSeq(lines, 1, pos) \o <<x>> \o SubSeq(lines, pos + 1, Len(lines))

\* The position after a greedy run of \s (or \w) starting at position i.
RECURSIVE SkipWhile(_, _, _)
SkipWhile(s, i, class) ==
    IF i <= Len(s) /\ s[i] \in class THEN SkipWhile(s, i + 1, class) ELSE i

(***************************************************************************)
(* smv_utils.find_module                                                   *)
(***************************************************************************)

\* A call either returns or raises ValueError; the model keeps both outcomes in
\* one record shape so they can be compared.
Located(start, end) == [ok |-> TRUE, start |-> start, end |-> end]

ModuleNotFound == [ok |-> FALSE, start |-> -1, end |-> -1]

Returned(text) == [ok |-> TRUE, text |-> text, error |-> ""]

Raised(message) == [ok |-> FALSE, text |-> <<>>, error |-> message]

\* The index (0-based, as in Python) of the first line at or after 0-based
\* index `from` whose stripped text starts with `prefix`; -1 if there is none.
FirstLineStarting(lines, from, prefix) ==
    LET hits == {i \in from..(Len(lines) - 1) : startswith(strip(lines[i + 1]), prefix)}
    IN  IF hits = {} THEN -1 ELSE SetMin(hits)

find_module(content, module_name) ==
    LET lines == splitlines(content)
        start == FirstLineStarting(lines, 0, <<"M","O","D","U","L","E"," ">> \o module_name)
        j     == FirstLineStarting(lines, start + 1, <<"M","O","D","U","L","E"," ">>)
    IN  IF start = -1 THEN ModuleNotFound
        ELSE IF j # -1 THEN Located(start, j)
        ELSE Located(start, Len(lines))


(***************************************************************************)
(* xml_parser.Fault and faults_injector.StuckAtInjector                    *)
(***************************************************************************)

Fault(type, variable, value) == [type |-> type, variable |-> variable, value |-> value]

Range(seq) == {seq[i] : i \in 1..Len(seq)}

\* A variant of the loop that appends every fault's mode, without the
\* membership test.
RECURSIVE fault_modes_appending_all(_, _)
fault_modes_appending_all(faults, modes) ==
    IF faults = <<>> THEN modes
    ELSE fault_modes_appending_all(Tail(faults),
                                   Append(modes, <<"s","t","u","c","k","_">> \o Head(faults).value))

\* The loop of get_fault_mode_enum: `modes` after the faults still to visit.
RECURSIVE fault_modes(_, _)
fault_modes(faults, modes) ==
    IF faults = <<>> THEN modes
    ELSE LET mode_name == <<"s","t","u","c","k","_">> \o Head(faults).value
         IN  fault_modes(Tail(faults),
                         IF mode_name \in Range(modes) THEN modes
                         ELSE Append(modes, mode_name))

\* The list `modes` get_fault_mode_enum joins.
fault_mode_list(faults) == fault_modes(faults, <<<<"n","o","n","e">>>>)

get_fault_mode_enum(faults) == join_with(<<","," ">>, fault_mode_list(faults))

\* None is -1.
_find_section_start(lines, keyword) == FirstLineStarting(lines, 0, keyword)

_find_insert_position_for_next_fault_mode(lines, assign_idx) ==
    LET after == (assign_idx + 1)..(Len(lines) - 1)
        inits == {i \in after : contains(lines[i + 1], <<"i","n","i","t","(">>)}
        nexts == {i \in after \ inits : contains(lines[i + 1], <<"n","e","x","t","(">>)}
    IN  IF nexts # {} THEN SetMin(nexts)
        ELSE IF inits # {} THEN SetMax(inits) + 1
        ELSE assign_idx + 1

\* A variant whose TRUE branch chooses among the enumeration again instead
\* of keeping fault_mode.
generate_next_fault_mode_rechoosing(faults) ==
    <<" "," "," "," ","n","e","x","t","(","f","a","u","l","t","_","m","o","d","e",")"," ",":","=","\n">>
    \o <<" "," "," "," "," "," "," "," ","c","a","s","e","\n">>
    \o <<" "," "," "," "," "," "," "," "," "," "," "," ","f","a","u","l","t","_","m","o","d","e"," ","="," ","n","o","n","e"," ",":","\n">>
    \o <<" "," "," "," "," "," "," "," "," "," "," "," "," "," "," "," ","{">> \o get_fault_mode_enum(faults) \o <<"}",";","\n">>
    \o <<" "," "," "," "," "," "," "," "," "," "," "," ","T","R","U","E"," ",":","\n">>
    \o <<" "," "," "," "," "," "," "," "," "," "," "," "," "," "," "," ","{">> \o get_fault_mode_enum(faults) \o <<"}",";","\n">>
    \o <<" "," "," "," "," "," "," "," ","e","s","a","c",";","\n">>

_generate_next_fault_mode(faults) ==
    <<" "," "," "," ","n","e","x","t","(","f","a","u","l","t","_","m","o","d","e",")"," ",":","=","\n">>
    \o <<" "," "," "," "," "," "," "," ","c","a","s","e","\n">>
    \o <<" "," "," "," "," "," "," "," "," "," "," "," ","f","a","u","l","t","_","m","o","d","e"," ","="," ","n","o","n","e"," ",":","\n">>
    \o <<" "," "," "," "," "," "," "," "," "," "," "," "," "," "," "," ","{">> \o get_fault_mode_enum(faults) \o <<"}",";","\n">>
    \o <<" "," "," "," "," "," "," "," "," "," "," "," ","T","R","U","E"," ",":","\n">>
    \o <<" "," "," "," "," "," "," "," "," "," "," "," "," "," "," "," ","f","a","u","l","t","_","m","o","d","e",";","\n">>
    \o <<" "," "," "," "," "," "," "," ","e","s","a","c",";","\n">>

\* re.search(r'(next\(<variable>\)\s*:=\s*case)(.*?)(esac;)', text, re.DOTALL):
\* the position after "case" when the first group matches at position i, else 0.
CaseHeadEnd(text, i, variable) ==
    LET lit == <<"n","e","x","t","(">> \o variable \o <<")">>
        a   == SkipWhile(text, i + Len(lit), Whitespace)
        b   == SkipWhile(text, a + 2, Whitespace)
    IN  IF MatchAt(text, i, lit) /\ MatchAt(text, a, <<":","=">>) /\ MatchAt(text, b, <<"c","a","s","e">>)
        THEN b + 4 ELSE 0

NoMatch == [matched |-> FALSE, start |-> 0, cases |-> 0, esac |-> 0]

\* The leftmost match: start is match.start()+1, cases the first position of
\* group 2, esac the first position of group 3 (the first "esac;" after "case").
search_next_case(text, variable) ==
    LET lit  == <<"n","e","x","t","(">> \o variable \o <<")">>
        hits == {i \in 1..(Len(text) - Len(lit) + 1) :
                    /\ CaseHeadEnd(text, i, variable) # 0
                    /\ find(text, <<"e","s","a","c",";">>, CaseHeadEnd(text, i, variable)) # 0}
    IN  IF hits = {} THEN NoMatch
        ELSE LET s == SetMin(hits)
                 c == CaseHeadEnd(text, s, variable)
             IN  [matched |-> TRUE, start |-> s, cases |-> c,
                  esac |-> find(text, <<"e","s","a","c",";">>, c)]

\* The loop building fault_cases.
RECURSIVE fault_cases(_)
fault_cases(faults) ==
    IF faults = <<>> THEN <<>>
    ELSE <<" "," "," "," "," "," "," "," ","f","a","u","l","t","_","m","o","d","e"," ","="," ","s","t","u","c","k","_">> \o Head(faults).value \o <<" ",":"," ">>
         \o Head(faults).value \o <<";","\n">> \o fault_cases(Tail(faults))

\* A variant that puts the fault branches after the original branches.
inject_after_original_cases(text, variable, faults) ==
    LET m == search_next_case(text, variable)
        prefix         == SubSeq(text, m.start, m.cases - 1)
        original_cases == SubSeq(text, m.cases, m.esac - 1)
        suffix         == <<"e","s","a","c",";">>
        new_assignment == prefix \o original_cases \o <<"\n">> \o fault_cases(faults)
                          \o <<" "," "," "," ">> \o suffix
    IN  IF ~m.matched THEN Raised("Could not find next(variable) assignment")
        ELSE Returned(SubSeq(text, 1, m.start - 1) \o new_assignment
                      \o Tail_from(text, m.esac + 5))

_inject_into_next_assignment(text, variable, faults) ==
    LET m == search_next_case(text, variable)
        prefix         == SubSeq(text, m.start, m.cases - 1)
        original_cases == SubSeq(text, m.cases, m.esac - 1)
        suffix         == <<"e","s","a","c",";">>
        new_assignment == prefix \o <<"\n">> \o fault_cases(faults) \o original_cases
                          \o <<" "," "," "," ">> \o suffix
    IN  IF ~m.matched THEN Raised("Could not find next(variable) assignment")
        ELSE Returned(SubSeq(text, 1, m.start - 1) \o new_assignment
                      \o Tail_from(text, m.esac + 5))

\* The keys of faults_by_var, in insertion order.
RECURSIVE fault_variables(_, _)
fault_variables(faults, seen) ==
    IF faults = <<>> THEN seen
    ELSE fault_variables(Tail(faults),
                         IF Head(faults).variable \in Range(seen) THEN seen
                         ELSE Append(seen, Head(faults).variable))

\* faults_by_var[variable]
faults_by_var(faults, variable) == SelectSeq(faults, LAMBDA f : f.variable = variable)

\* The loop over faults_by_var.items(); the first raise ends it.
RECURSIVE inject_each(_, _, _)
inject_each(result, variables, faults) ==
    IF variables = <<>> \/ ~result.ok THEN result
    ELSE inject_each(_inject_into_next_assignment(result.text, Head(variables),
                                                  faults_by_var(faults, Head(variables))),
                     Tail(variables), faults)

_inject_fault_conditions(faults, module_text) ==
    inject_each(Returned(module_text), fault_variables(faults, <<>>), faults)

\* The list `lines` of inject_into_module after its three inserts.
inject_declarations(faults, module_text) ==
    LET lines0     == splitlines(module_text)
        var_idx    == _find_section_start(lines0, <<"V","A","R">>)
        fault_mode_decl == <<" "," "," "," ","f","a","u","l","t","_","m","o","d","e"," ",":"," ","{">> \o get_fault_mode_enum(faults) \o <<"}",";","\n">>
        lines1     == list_insert(lines0, var_idx + 1, fault_mode_decl)
        assign_idx == _find_section_start(lines1, <<"A","S","S","I","G","N">>)
        init_fault == <<" "," "," "," ","i","n","i","t","(","f","a","u","l","t","_","m","o","d","e",")"," ",":","="," ","n","o","n","e",";","\n","\n">>
        lines2     == list_insert(lines1, assign_idx + 1, init_fault)
        next_fault == _generate_next_fault_mode(faults)
        insert_pos == _find_insert_position_for_next_fault_mode(lines2, assign_idx)
    IN  list_insert(lines2, insert_pos, next_fault)

inject_into_module(faults, module_text) ==
    LET lines0  == splitlines(module_text)
        var_idx == _find_section_start(lines0, <<"V","A","R">>)
        lines1  == list_insert(lines0, var_idx + 1, <<>>)
    IN  IF var_idx = -1 THEN Raised("No VAR section found in module")
        ELSE IF _find_section_start(lines1, <<"A","S","S","I","G","N">>) = -1
             THEN Raised("No ASSIGN section found in module")
        ELSE _inject_fault_conditions(faults, join(inject_declarations(faults, module_text)))

\* line.split(':', 1) of a line that holds a ':'.
split_colon(line) ==
    LET k == find(line, <<":">>, 1)
    IN  <<SubSeq(line, 1, k - 1), Tail_from(line, k + 1)>>

\* The loop of protect_toggle_logic over the lines of the case block.
RECURSIVE protect_lines(_)
protect_lines(lines) ==
    IF lines = <<>> THEN <<>>
    ELSE LET line == Head(lines)
             parts == split_colon(line)
             new_condition == <<"f","a","u","l","t","_","m","o","d","e"," ","="," ","n","o","n","e"," ","&","\n"," "," "," "," "," "," "," "," ">> \o strip(parts[1])
         IN  (IF contains(line, <<"!","r","e","q","u","e","s","t","_","t","o","g","g","l","e">>) /\ contains(line, <<":">>)
              THEN <<" "," "," "," "," "," "," "," ">> \o new_condition \o <<" ",":"," ">> \o strip(parts[2]) \o <<"\n">>
              ELSE line \o <<"\n">>)
             \o protect_lines(Tail(lines))

protect_toggle_logic(module_text) ==
    LET m == search_next_case(module_text, <<"r","e","q","u","e","s","t","_","t","o","g","g","l","e">>)
        prefix         == SubSeq(module_text, m.start, m.cases - 1)
        original_cases == SubSeq(module_text, m.cases, m.esac - 1)
        new_assignment == prefix \o protect_lines(split_nl(original_cases))
                          \o <<" "," "," "," ">> \o <<"e","s","a","c",";">>
    IN  IF ~m.matched THEN module_text
        ELSE SubSeq(module_text, 1, m.start - 1) \o new_assignment
             \o Tail_from(module_text, m.esac + 5)

(***************************************************************************)
(* faults_injector.FaultInjectionEngine                                    *)
(***************************************************************************)

\* The test of _create_injector: TRUE when it returns a StuckAtInjector,
\* FALSE when it raises "Unsupported fault type(s)".
_create_injector(faults) ==
    LET fault_types == {faults[i].type : i \in 1..Len(faults)}
    IN  fault_types = {<<"s","t","u","c","k","-","a","t">>}

inject(faults, target_module, smv_content) ==
    LET loc         == find_module(smv_content, target_module)
        lines       == splitlines(smv_content)
        module_text == join(SubSeq(lines, loc.start + 1, loc.end))
        modified    == inject_into_module(faults, module_text)
    IN  IF ~loc.ok THEN Raised("MODULE not found")
        ELSE IF ~modified.ok THEN modified
        ELSE Returned(join(SubSeq(lines, 1, loc.start))
                      \o protect_toggle_logic(modified.text)
                      \o join(SubSeq(lines, loc.end + 1, Len(lines))))

Digit(d) == <<"0", "1", "2", "3", "4", "5", "6", "7", "8", "9">>[d + 1]

\* str(n) for n >= 0, as the f-string formats the suffix.
RECURSIVE str_int(_)
str_int(n) == IF n < 10 THEN <<Digit(n)>> ELSE str_int(n \div 10) \o <<Digit(n % 10)>>

NoInstance ==
    [matched |-> FALSE, indent |-> <<>>, instance_name |-> <<>>,
     module_name |-> <<>>, params |-> <<>>]

\* re.match(r'(\s*)(\w+)\s*:\s*process\s+(\w+)\((.*?)\);', line)
match_instance(line) ==
    LET i1 == SkipWhile(line, 1, Whitespace)
        i2 == SkipWhile(line, i1, WordChars)
        i3 == SkipWhile(line, i2, Whitespace)
        i4 == SkipWhile(line, i3 + 1, Whitespace)
        i5 == i4 + 7
        i6 == SkipWhile(line, i5, Whitespace)
        i7 == SkipWhile(line, i6, WordChars)
        close == find(line, <<")",";">>, i7 + 1)
    IN  IF /\ i2 > i1
           /\ MatchAt(line, i3, <<":">>)
           /\ MatchAt(line, i4, <<"p","r","o","c","e","s","s">>)
           /\ i6 > i5
           /\ i7 > i6
           /\ MatchAt(line, i7, <<"(">>)
           /\ close # 0
           /\ ~contains(SubSeq(line, i7 + 1, close - 1), <<"\n">>)
        THEN [matched |-> TRUE, indent |-> SubSeq(line, 1, i1 - 1),
              instance_name |-> SubSeq(line, i1, i2 - 1),
              module_name |-> SubSeq(line, i6, i7 - 1),
              params |-> SubSeq(line, i7 + 1, close - 1)]
        ELSE NoInstance

\* The loop "for i in range(1, redundancy + 1)" from i on.
RECURSIVE new_instances(_, _, _)
new_instances(m, i, redundancy) ==
    IF i > redundancy THEN <<>>
    ELSE <<m.indent \o m.instance_name \o <<"_">> \o str_int(i) \o <<" ",":"," ","p","r","o","c","e","s","s"," ">>
           \o m.module_name \o <<"(">> \o m.params \o <<")",";","\n">>>>
         \o new_instances(m, i + 1, redundancy)

\* The loop over nominal_lines building new_nominal.
RECURSIVE new_nominal(_, _, _)
new_nominal(nominal_lines, target_module, redundancy) ==
    IF nominal_lines = <<>> THEN <<>>
    ELSE LET line == Head(nominal_lines)
             m    == match_instance(line)
         IN  (IF contains(line, <<":"," ","p","r","o","c","e","s","s"," ">> \o target_module) /\ m.matched
              THEN new_instances(m, 1, redundancy)
              ELSE <<line>>)
             \o new_nominal(Tail(nominal_lines), target_module, redundancy)

replicate_for_redundancy(target_module, redundancy, smv_content) ==
    LET loc           == find_module(smv_content, <<"N","o","m","i","n","a","l","R">>)
        lines         == splitlines(smv_content)
        nominal_lines == SubSeq(lines, loc.start + 1, loc.end)
        found_target  == \E i \in 1..Len(nominal_lines) :
                            contains(nominal_lines[i], <<":"," ","p","r","o","c","e","s","s"," ">> \o target_module)
    IN  IF redundancy <= 1 THEN smv_content
        ELSE IF ~loc.ok THEN smv_content
        ELSE IF ~found_target THEN smv_content
        ELSE join(SubSeq(lines, 1, loc.start))
             \o join(new_nominal(nominal_lines, target_module, redundancy))
             \o join(SubSeq(lines, loc.end + 1, Len(lines)))

(***************************************************************************)
(* Reading the SMV text the tool writes.  A case block is an ordered list  *)
(* of branches "guard : action;" and the first branch whose guard is true  *)
(* gives the value (spec.md, sections 4.5 and Glossary).                   *)
(***************************************************************************)

\* The pieces of s between occurrences of the character c.
RECURSIVE split_on(_, _)
split_on(s, c) ==
    LET k == find(s, c, 1)
    IN  IF k = 0 THEN <<s>>
        ELSE <<SubSeq(s, 1, k - 1)>> \o split_on(Tail_from(s, k + 1), c)

\* The branches of the pieces of a case block, in order.
RECURSIVE BranchesOf(_)
BranchesOf(pieces) ==
    IF pieces = <<>> THEN <<>>
    ELSE LET p == Head(pieces)
             k == find(p, <<":">>, 1)
         IN  (IF k = 0 THEN <<>>
              ELSE <<[guard  |-> strip(SubSeq(p, 1, k - 1)),
                      action |-> strip(Tail_from(p, k + 1))]>>)
             \o BranchesOf(Tail(pieces))

Branches(case_body) == BranchesOf(split_on(case_body, <<";">>))

\* The text between "next(<variable>) := case" and its "esac;".
CaseBody(text, variable) ==
    LET m == search_next_case(text, variable)
    IN  IF m.matched THEN SubSeq(text, m.cases, m.esac - 1) ELSE <<>>

\* The values of "{a, b, c}", or of a single term.
SmvValues(action, current) ==
    IF startswith(action, <<"{">>)
    THEN LET inner == SubSeq(action, 2, find(action, <<"}">>, 1) - 1)
             parts == split_on(inner, <<",">>)
         IN  {strip(parts[i]) : i \in 1..Len(parts)}
    ELSE IF action = <<"f","a","u","l","t","_","m","o","d","e">> THEN {current}
    ELSE {action}

\* Whether a guard is true when fault_mode has the value `current`; guards
\* over other variables are inputs of the model and may go either way.
GuardTrue(guard, current) ==
    IF guard = <<"T","R","U","E">> THEN {TRUE}
    ELSE IF startswith(guard, <<"f","a","u","l","t","_","m","o","d","e"," ","="," ">>) /\ ~contains(guard, <<"&">>)
    THEN {Tail_from(guard, Len(<<"f","a","u","l","t","_","m","o","d","e"," ","="," ">>) + 1) = current}
    ELSE BOOLEAN

\* The values a case block may give next when fault_mode is `current`.
RECURSIVE CaseValues(_, _)
CaseValues(branches, current) ==
    IF branches = <<>> THEN {}
    ELSE LET b == Head(branches)
         IN  (IF TRUE \in GuardTrue(b.guard, current)
              THEN SmvValues(b.action, current) ELSE {})
             \cup (IF FALSE \in GuardTrue(b.guard, current)
                   THEN CaseValues(Tail(branches), current) ELSE {})

\* The value "init(fault_mode) := <value>;" gives.
InitFaultMode(text) ==
    LET lit == <<"i","n","i","t","(","f","a","u","l","t","_","m","o","d","e",")"," ",":","="," ">>
        k   == find(text, lit, 1)
    IN  SubSeq(text, k + Len(lit), find(text, <<";">>, k) - 1)

(***************************************************************************)
(* Inputs                                                                  *)
(***************************************************************************)

MaxFaults == 2

MaxSpecFaults == 1

MaxModules == 2

MaxRedundancy == 2

MaxCalls == 4

MaxSteps == 3

SeqsUpTo(S, n) == UNION {[1..k -> S] : k \in 0..n}

StuckAt(variable, value) == Fault(<<"s","t","u","c","k","-","a","t">>, variable, value)

\* Faults of a fault specification: the supported kind on two variables, with
\* a value shared by both, and one fault of another kind.
FaultPool ==
    {StuckAt(<<"x">>, <<"0">>), StuckAt(<<"x">>, <<"1">>), StuckAt(<<"y">>, <<"1">>),
     Fault(<<"b","i","t","-","f","l","i","p">>, <<"y">>, <<"0">>)}

FaultLists == SeqsUpTo(FaultPool, MaxFaults)

\* Pieces of a target module.
Header == <<"M","O","D","U","L","E"," ","S","r","v","(","q",")","\n">>

VarSection == <<"V","A","R","\n"," "," ","x"," ",":"," ","0",".",".","1",";","\n"," "," ","y"," ",":"," ","0",".",".","1",";","\n">>

AssignHeader == <<"A","S","S","I","G","N","\n">>

InitX == <<" "," ","i","n","i","t","(","x",")"," ",":","="," ","0",";","\n">>

InitY == <<" "," ","i","n","i","t","(","y",")"," ",":","="," ","0",";","\n">>

InitXCase == <<" "," ","i","n","i","t","(","x",")"," ",":","=","\n"," "," "," "," ","c","a","s","e","\n"," "," "," "," "," "," ","q"," ",":"," ","0",";","\n"," "," "," "," "," "," ","T","R","U","E"," ",":"," ","1",";","\n"," "," "," "," ","e","s","a","c",";","\n">>

NextX == <<" "," ","n","e","x","t","(","x",")"," ",":","="," ","c","a","s","e","\n"," "," "," "," ","q"," ",":"," ","1",";","\n"," "," "," "," ","T","R","U","E"," ",":"," ","x",";","\n"," "," ","e","s","a","c",";","\n">>

NextY == <<" "," ","n","e","x","t","(","y",")"," ",":","=","\n"," "," "," "," ","c","a","s","e","\n"," "," "," "," "," "," ","T","R","U","E"," ",":"," ","y",";","\n"," "," "," "," ","e","s","a","c",";","\n">>

\* next(request_toggle) with the flipping branch on one line, with the
\* flipping branch's action on a line of its own, and with a branch that
\* tests !request_toggle without flipping it.
Toggle == <<" "," ","n","e","x","t","(","r","e","q","u","e","s","t","_","t","o","g","g","l","e",")"," ",":","="," ","c","a","s","e","\n"," "," "," "," ","q"," ",":"," ","!","r","e","q","u","e","s","t","_","t","o","g","g","l","e",";","\n"," "," "," "," ","T","R","U","E"," ",":"," ","r","e","q","u","e","s","t","_","t","o","g","g","l","e",";","\n"," "," ","e","s","a","c",";","\n">>

ToggleSplit == <<" "," ","n","e","x","t","(","r","e","q","u","e","s","t","_","t","o","g","g","l","e",")"," ",":","="," ","c","a","s","e","\n"," "," "," "," ","q"," ",":","\n"," "," "," "," "," "," ","!","r","e","q","u","e","s","t","_","t","o","g","g","l","e",";","\n"," "," "," "," ","T","R","U","E"," ",":"," ","r","e","q","u","e","s","t","_","t","o","g","g","l","e",";","\n"," "," ","e","s","a","c",";","\n">>

ToggleGuard == <<" "," ","n","e","x","t","(","r","e","q","u","e","s","t","_","t","o","g","g","l","e",")"," ",":","="," ","c","a","s","e","\n"," "," "," "," ","!","r","e","q","u","e","s","t","_","t","o","g","g","l","e"," ","&"," ","q"," ",":"," ","T","R","U","E",";","\n"," "," "," "," ","T","R","U","E"," ",":"," ","r","e","q","u","e","s","t","_","t","o","g","g","l","e",";","\n"," "," ","e","s","a","c",";","\n">>

ModulePool ==
    {Header \o VarSection \o AssignHeader \o InitX \o InitY \o NextX \o NextY,
     Header \o VarSection \o AssignHeader \o InitX \o NextX \o InitY \o NextY,
     Header \o VarSection \o AssignHeader \o InitXCase \o NextX \o NextY,
     Header \o VarSection \o AssignHeader \o NextX \o NextY,
     Header \o VarSection \o AssignHeader \o InitX \o NextX,
     Header \o VarSection \o AssignHeader \o InitX \o InitY,
     Header \o VarSection \o AssignHeader \o InitXCase,
     Header \o VarSection \o AssignHeader,
     Header \o VarSection,
     Header \o AssignHeader \o InitX \o NextX \o NextY,
     Header \o VarSection \o AssignHeader \o InitX \o NextX \o NextY \o Toggle,
     Header \o VarSection \o AssignHeader \o NextX \o NextY \o ToggleSplit,
     Header \o VarSection \o AssignHeader \o NextX \o NextY \o ToggleGuard}

\* Modules of a whole model: the target Srv with and without an ASSIGN
\* section, a module whose name starts with the target's, and the wrapper.
SrvFull == <<"M","O","D","U","L","E"," ","S","r","v","(","q",")","\n","V","A","R","\n"," "," ","x"," ",":"," ","0",".",".","1",";","\n","A","S","S","I","G","N","\n"," "," ","n","e","x","t","(","x",")"," ",":","="," ","c","a","s","e","\n"," "," "," "," ","T","R","U","E"," ",":"," ","x",";","\n"," "," ","e","s","a","c",";","\n">>

SrvBare == <<"M","O","D","U","L","E"," ","S","r","v","(","q",")","\n","V","A","R","\n"," "," ","x"," ",":"," ","0",".",".","1",";","\n">>

Srv2Full == <<"M","O","D","U","L","E"," ","S","r","v","2","(","q",")","\n","V","A","R","\n"," "," ","x"," ",":"," ","0",".",".","1",";","\n","A","S","S","I","G","N","\n"," "," ","n","e","x","t","(","x",")"," ",":","="," ","c","a","s","e","\n"," "," "," "," ","T","R","U","E"," ",":"," ","x",";","\n"," "," ","e","s","a","c",";","\n">>

Wrapper == <<"M","O","D","U","L","E"," ","N","o","m","i","n","a","l","R","\n","V","A","R","\n"," "," ","a"," ",":"," ","p","r","o","c","e","s","s"," ","S","r","v","(","q",")",";","\n">>

ModelPool == {SrvFull, SrvBare, Srv2Full, Wrapper}

ModelTexts == {join(ms) : ms \in SeqsUpTo(ModelPool, MaxModules)}

SpecFaultLists == SeqsUpTo({StuckAt(<<"x">>, <<"0">>), Fault(<<"b","i","t","-","f","l","i","p">>, <<"x">>, <<"0">>)}, MaxSpecFaults)

\* Wrappers: one instance of the target, instances of the target and of Srv2,
\* no instance, an instance line the pattern does not parse, and a module
\* whose name starts with the wrapper's.
WrapperTwo == <<"M","O","D","U","L","E"," ","N","o","m","i","n","a","l","R","\n","V","A","R","\n"," "," "," "," ","a"," ",":"," ","p","r","o","c","e","s","s"," ","S","r","v","(","q",","," ","r",")",";","\n"," "," ","b"," ",":"," ","p","r","o","c","e","s","s"," ","S","r","v","2","(","q",")",";","\n">>

WrapperNone == <<"M","O","D","U","L","E"," ","N","o","m","i","n","a","l","R","\n","V","A","R","\n"," "," ","q"," ",":"," ","b","o","o","l","e","a","n",";","\n">>

WrapperBad == <<"M","O","D","U","L","E"," ","N","o","m","i","n","a","l","R","\n","V","A","R","\n"," "," ","a"," ",":"," ","p","r","o","c","e","s","s"," ","S","r","v",";","\n">>

WrapperX == <<"M","O","D","U","L","E"," ","N","o","m","i","n","a","l","R","x","\n","V","A","R","\n"," "," ","c"," ",":"," ","p","r","o","c","e","s","s"," ","S","r","v","(","q",")",";","\n">>

MainModule == <<"M","O","D","U","L","E"," ","m","a","i","n","\n","V","A","R","\n"," "," ","n"," ",":"," ","N","o","m","i","n","a","l","R",";","\n">>

WrapperPool == {Wrapper, WrapperTwo, WrapperNone, WrapperBad, WrapperX, MainModule}

WrapperTexts == {join(ms) : ms \in SeqsUpTo(WrapperPool, MaxModules)}

\* Module headers for the locator, one of them indented.
LocatorPool ==
    {<<"M","O","D","U","L","E"," ","S","r","v","(","q",")","\n","V","A","R","\n">>, <<"M","O","D","U","L","E"," ","S","r","v","2","\n","V","A","R","\n">>, <<" "," ","M","O","D","U","L","E"," ","m","a","i","n","\n","V","A","R","\n">>,
     <<"M","O","D","U","L","E"," ","N","o","m","i","n","a","l","R","\n">>}

LocatorTexts == {join(ms) : ms \in SeqsUpTo(LocatorPool, MaxModules)}

ModuleNames == {<<"S","r","v">>, <<"S","r","v","2">>, <<"m","a","i","n">>, <<"N","o","m","i","n","a","l">>, <<"A","b","s">>}

(***************************************************************************)
(* State                                                                   *)
(***************************************************************************)

VARIABLES
    pc,               \* where the run is
    faults,           \* fault_model.faults / StuckAtInjector.faults
    target_module,    \* fault_model.target_module
    redundancy,       \* fault_model.redundancy
    smv_content,      \* the model text read by load_smv
    modified_content, \* main's modified_content
    out_file,         \* the file at the output path
    module_text,      \* the argument of inject_into_module
    via,              \* how the StuckAtInjector was made
    injected,         \* what inject_into_module returned or raised
    protected,        \* what protect_toggle_logic returned
    found,            \* what find_module returned or raised
    calls,            \* the results of the calls of get_fault_mode_enum
    fault_mode,       \* fault_mode of the generated model
    steps             \* steps the generated model has taken

vars ==
    <<pc, faults, target_module, redundancy, smv_content, modified_content,
      out_file, module_text, via, injected, protected, found, calls,
      fault_mode, steps>>

NoFile == [opened |-> FALSE, text |-> <<>>]

\* Everything a specification does not use stays as it is here.
Blank ==
    /\ faults = <<>>
    /\ target_module = <<>>
    /\ redundancy = 1
    /\ smv_content = <<>>
    /\ modified_content = <<>>
    /\ out_file = NoFile
    /\ module_text = <<>>
    /\ via = ""
    /\ injected = Raised("")
    /\ protected = <<>>
    /\ found = ModuleNotFound
    /\ calls = <<>>
    /\ fault_mode = <<>>
    /\ steps = 0

(***************************************************************************)
(* main: one action per stage                                              *)
(***************************************************************************)

Init == pc = "args" /\ Blank

\* len(sys.argv) != 4 prints the usage and exits.
CheckArgs ==
    /\ pc = "args"
    /\ \E argc \in {3, 4} : pc' = IF argc # 4 THEN "exit" ELSE "parse"
    /\ UNCHANGED <<faults, target_module, redundancy, smv_content, modified_content,
                   out_file, module_text, via, injected, protected, found, calls,
                   fault_mode, steps>>

\* [1] parse_fault_model returns a FaultModel or raises.
ParseFaultModel ==
    /\ pc = "parse"
    /\ \/ /\ pc' = "aborted"
          /\ UNCHANGED <<faults, target_module, redundancy>>
       \/ /\ pc' = "load"
          /\ faults' \in SpecFaultLists
          /\ target_module' = <<"S","r","v">>
          /\ redundancy' \in 1..MaxRedundancy
    /\ UNCHANGED <<smv_content, modified_content, out_file, module_text, via,
                   injected, protected, found, calls, fault_mode, steps>>

\* [2] load_smv returns the text or raises.
LoadSmv ==
    /\ pc = "load"
    /\ \/ /\ pc' = "aborted"
          /\ UNCHANGED smv_content
       \/ /\ pc' = "engine"
          /\ smv_content' \in ModelTexts
    /\ UNCHANGED <<faults, target_module, redundancy, modified_content, out_file,
                   module_text, via, injected, protected, found, calls, fault_mode,
                   steps>>

\* [3] FaultInjectionEngine(fault_model)
CreateEngine ==
    /\ pc = "engine"
    /\ pc' = IF _create_injector(faults) THEN "inject" ELSE "aborted"
    /\ UNCHANGED <<faults, target_module, redundancy, smv_content, modified_content,
                   out_file, module_text, via, injected, protected, found, calls,
                   fault_mode, steps>>

\* [4] engine.inject(smv_content)
Inject ==
    /\ pc = "inject"
    /\ LET r == inject(faults, target_module, smv_content)
       IN  /\ pc' = IF r.ok THEN "redundancy" ELSE "aborted"
           /\ modified_content' = IF r.ok THEN r.text ELSE modified_content
    /\ UNCHANGED <<faults, target_module, redundancy, smv_content, out_file,
                   module_text, via, injected, protected, found, calls, fault_mode,
                   steps>>

\* [5] if fault_model.redundancy > 1: engine.replicate_for_redundancy(...)
Replicate ==
    /\ pc = "redundancy"
    /\ pc' = "save"
    /\ modified_content' =
         IF redundancy > 1
         THEN replicate_for_redundancy(target_module, redundancy, modified_content)
         ELSE modified_content
    /\ UNCHANGED <<faults, target_module, redundancy, smv_content, out_file,
                   module_text, via, injected, protected, found, calls, fault_mode,
                   steps>>

\* [6] save_smv(output_smv, modified_content)
Save ==
    /\ pc = "save"
    /\ pc' = "done"
    /\ out_file' = [opened |-> TRUE, text |-> modified_content]
    /\ UNCHANGED <<faults, target_module, redundancy, smv_content, modified_content,
                   module_text, via, injected, protected, found, calls, fault_mode,
                   steps>>

Next == CheckArgs \/ ParseFaultModel \/ LoadSmv \/ CreateEngine \/ Inject \/ Replicate \/ Save

Spec == Init /\ [][Next]_vars

(***************************************************************************)
(* The injector on one module                                              *)
(***************************************************************************)

InitInject ==
    /\ pc = "new"
    /\ faults \in FaultLists
    /\ module_text \in ModulePool
    /\ target_module = <<>> /\ redundancy = 1 /\ smv_content = <<>>
    /\ modified_content = <<>> /\ out_file = NoFile /\ via = ""
    /\ injected = Raised("") /\ protected = <<>> /\ found = ModuleNotFound
    /\ calls = <<>> /\ fault_mode = <<>> /\ steps = 0

\* FaultInjectionEngine(fault_model): engine.injector, or the raise.
NewEngine ==
    /\ pc = "new"
    /\ via' = "engine"
    /\ pc' = IF _create_injector(faults) THEN "ready" ELSE "raised"
    /\ UNCHANGED <<faults, target_module, redundancy, smv_content, modified_content,
                   out_file, module_text, injected, protected, found, calls,
                   fault_mode, steps>>

\* StuckAtInjector(faults)
NewStuckAtInjector ==
    /\ pc = "new"
    /\ via' = "direct"
    /\ pc' = "ready"
    /\ UNCHANGED <<faults, target_module, redundancy, smv_content, modified_content,
                   out_file, module_text, injected, protected, found, calls,
                   fault_mode, steps>>

InjectIntoModule ==
    /\ pc = "ready"
    /\ injected' = inject_into_module(faults, module_text)
    /\ pc' = IF injected'.ok THEN "injected" ELSE "raised"
    /\ UNCHANGED <<faults, target_module, redundancy, smv_content, modified_content,
                   out_file, module_text, via, protected, found, calls, fault_mode,
                   steps>>

ProtectToggleLogic ==
    /\ pc = "injected"
    /\ protected' = protect_toggle_logic(injected.text)
    /\ pc' = "protected"
    /\ UNCHANGED <<faults, target_module, redundancy, smv_content, modified_content,
                   out_file, module_text, via, injected, found, calls, fault_mode,
                   steps>>

NextInject == NewEngine \/ NewStuckAtInjector \/ InjectIntoModule \/ ProtectToggleLogic

SpecInject == InitInject /\ [][NextInject]_vars

(***************************************************************************)
(* find_module, replicate_for_redundancy and get_fault_mode_enum alone     *)
(***************************************************************************)

InitLocate ==
    /\ pc = "new"
    /\ smv_content \in LocatorTexts
    /\ target_module \in ModuleNames
    /\ faults = <<>> /\ redundancy = 1 /\ modified_content = <<>>
    /\ out_file = NoFile /\ module_text = <<>> /\ via = ""
    /\ injected = Raised("") /\ protected = <<>> /\ found = ModuleNotFound
    /\ calls = <<>> /\ fault_mode = <<>> /\ steps = 0

FindModule ==
    /\ pc = "new"
    /\ found' = find_module(smv_content, target_module)
    /\ pc' = "located"
    /\ UNCHANGED <<faults, target_module, redundancy, smv_content, modified_content,
                   out_file, module_text, via, injected, protected, calls,
                   fault_mode, steps>>

SpecLocate == InitLocate /\ [][FindModule]_vars

InitReplicate ==
    /\ pc = "new"
    /\ smv_content \in WrapperTexts
    /\ target_module = <<"S","r","v">>
    /\ redundancy \in 0..MaxRedundancy
    /\ faults = <<>> /\ modified_content = <<>>
    /\ out_file = NoFile /\ module_text = <<>> /\ via = ""
    /\ injected = Raised("") /\ protected = <<>> /\ found = ModuleNotFound
    /\ calls = <<>> /\ fault_mode = <<>> /\ steps = 0

ReplicateForRedundancy ==
    /\ pc = "new"
    /\ modified_content' = replicate_for_redundancy(target_module, redundancy, smv_content)
    /\ pc' = "replicated"
    /\ UNCHANGED <<faults, target_module, redundancy, smv_content, out_file,
                   module_text, via, injected, protected, found, calls, fault_mode,
                   steps>>

SpecReplicate == InitReplicate /\ [][ReplicateForRedundancy]_vars

InitEnum ==
    /\ pc = "new"
    /\ faults \in FaultLists
    /\ target_module = <<>> /\ redundancy = 1 /\ smv_content = <<>>
    /\ modified_content = <<>> /\ out_file = NoFile /\ module_text = <<>>
    /\ via = "direct" /\ injected = Raised("") /\ protected = <<>>
    /\ found = ModuleNotFound /\ calls = <<>> /\ fault_mode = <<>> /\ steps = 0

\* One call of get_fault_mode_enum: it reads self.faults and changes nothing.
GetFaultModeEnum ==
    /\ Len(calls) < MaxCalls
    /\ calls' = Append(calls, [modes  |-> fault_mode_list(faults),
                               result |-> get_fault_mode_enum(faults)])
    /\ UNCHANGED <<pc, faults, target_module, redundancy, smv_content,
                   modified_content, out_file, module_text, via, injected,
                   protected, found, fault_mode, steps>>

SpecEnum == InitEnum /\ [][GetFaultModeEnum]_vars

(***************************************************************************)
(* The generated model: fault_mode under the assignments the tool wrote    *)
(***************************************************************************)

InitLatch ==
    /\ pc = "new"
    /\ faults \in FaultLists
    /\ module_text \in {Header \o VarSection \o AssignHeader \o InitX \o NextX \o NextY,
                        Header \o VarSection \o AssignHeader \o NextX \o NextY \o Toggle}
    /\ target_module = <<>> /\ redundancy = 1 /\ smv_content = <<>>
    /\ modified_content = <<>> /\ out_file = NoFile /\ via = "engine"
    /\ injected = Raised("") /\ protected = <<>> /\ found = ModuleNotFound
    /\ calls = <<>> /\ fault_mode = <<>> /\ steps = 0

\* The engine rewrites the module; the generated model starts in the state
\* its init(fault_mode) assignment gives.
Generate ==
    /\ pc = "new"
    /\ LET r == inject_into_module(faults, module_text)
       IN  IF _create_injector(faults) /\ r.ok
           THEN /\ injected' = r
                /\ protected' = protect_toggle_logic(r.text)
                /\ fault_mode' = InitFaultMode(protected')
                /\ pc' = "running"
           ELSE /\ pc' = "raised"
                /\ UNCHANGED <<injected, protected, fault_mode>>
    /\ UNCHANGED <<faults, target_module, redundancy, smv_content, modified_content,
                   out_file, module_text, via, found, calls, steps>>

\* One step of the generated model.
SmvStep ==
    /\ pc = "running"
    /\ steps < MaxSteps
    /\ fault_mode' \in CaseValues(Branches(CaseBody(protected, <<"f","a","u","l","t","_","m","o","d","e">>)), fault_mode)
    /\ steps' = steps + 1
    /\ UNCHANGED <<pc, faults, target_module, redundancy, smv_content,
                   modified_content, out_file, module_text, via, injected,
                   protected, found, calls>>

NextLatch == Generate \/ SmvStep

SpecLatch == InitLatch /\ [][NextLatch]_vars

(***************************************************************************)
(* Reading texts for the properties                                        *)
(***************************************************************************)

IsHeader(line) == startswith(strip(line), <<"M","O","D","U","L","E"," ">>)

\* The name a module header declares: the identifier after "MODULE ".
HeaderName(line) ==
    LET s == strip(line)
    IN  SubSeq(s, 8, SkipWhile(s, 8, WordChars) - 1)

\* The (1-based) header lines of the modules named exactly module_name.
HeadersNamed(lines, module_name) ==
    {i \in 1..Len(lines) : IsHeader(lines[i]) /\ HeaderName(lines[i]) = module_name}

\* The last line (1-based) of the module whose header is line s.
ModuleEnd(lines, s) ==
    LET later == {j \in (s + 1)..Len(lines) : IsHeader(lines[j])}
    IN  IF later = {} THEN Len(lines) ELSE SetMin(later) - 1

Count(text, p) == Cardinality({i \in 1..Len(text) : MatchAt(text, i, p)})

\* The values between the braces of the declaration "fault_mode : {...};".
DeclaredModes(text) ==
    LET lit   == <<"f","a","u","l","t","_","m","o","d","e"," ",":"," ","{">>
        k     == find(text, lit, 1)
        inner == SubSeq(text, k + Len(lit), find(text, <<"}">>, k) - 1)
        parts == split_on(inner, <<",">>)
    IN  [i \in 1..Len(parts) |-> strip(parts[i])]

\* The <value> of a mode stuck_<value>.
StuckValue(mode) == Tail_from(mode, Len(<<"s","t","u","c","k","_">>) + 1)

FirstFaultWithValue(fs, value) == SetMin({j \in 1..Len(fs) : fs[j].value = value})

\* modes is none, then stuck_<value> once for each distinct value of fs, in
\* the order in which the values first occur in fs.
IsFirstOccurrenceEnum(modes, fs) ==
    /\ Len(modes) >= 1
    /\ modes[1] = <<"n","o","n","e">>
    /\ \A i \in 2..Len(modes) : startswith(modes[i], <<"s","t","u","c","k","_">>)
    /\ {StuckValue(modes[i]) : i \in 2..Len(modes)} = {fs[j].value : j \in 1..Len(fs)}
    /\ \A i, k \in 2..Len(modes) :
          i < k => FirstFaultWithValue(fs, StuckValue(modes[i]))
                   < FirstFaultWithValue(fs, StuckValue(modes[k]))

FaultVariables == {faults[i].variable : i \in 1..Len(faults)}

FaultsOn(variable) == SelectSeq(faults, LAMBDA f : f.variable = variable)

Rewritten == pc \in {"injected", "protected"}

(***************************************************************************)
(* C1                                                                      *)
(***************************************************************************)

\* C1: in the text inject_into_module returns, the case block of next(v) of
\* every affected variable v holds one branch "fault_mode = stuck_<value> :
\* <value>" per fault on v, in the order of the faults, before all the
\* original branches; the original text of the block follows unchanged; and
\* when fault_mode is stuck_<value> the block gives <value>.
C1_FaultBranchesFirst ==
    Rewritten =>
        \A v \in FaultVariables :
            LET old == CaseBody(module_text, v)
                new == CaseBody(injected.text, v)
                fs  == FaultsOn(v)
                B   == Branches(new)
            IN  /\ Len(B) = Len(fs) + Len(Branches(old))
                /\ \A k \in 1..Len(fs) :
                      B[k] = [guard  |-> <<"f","a","u","l","t","_","m","o","d","e"," ","="," ","s","t","u","c","k","_">> \o fs[k].value,
                              action |-> fs[k].value]
                /\ SubSeq(B, Len(fs) + 1, Len(B)) = Branches(old)
                /\ \E k \in 1..(Len(new) - Len(old) + 1) :
                      /\ MatchAt(new, k, old)
                      /\ strip(Tail_from(new, k + Len(old))) = <<>>
                      /\ Len(Branches(SubSeq(new, 1, k - 1))) = Len(fs)
                /\ \A k \in 1..Len(fs) :
                      LET first == SetMin({j \in 1..Len(fs) : fs[j].value = fs[k].value})
                      IN  CaseValues(B, <<"s","t","u","c","k","_">> \o fs[k].value) = {fs[first].value}

\* Two faults with different values on one variable have been injected.
C1_Witness ==
    /\ pc = "injected"
    /\ \E v \in FaultVariables :
          /\ Len(FaultsOn(v)) = 2
          /\ FaultsOn(v)[1].value # FaultsOn(v)[2].value
          /\ Len(Branches(CaseBody(module_text, v))) = 2

(***************************************************************************)
(* C2                                                                      *)
(***************************************************************************)

HasSection(text, keyword) ==
    \E i \in 1..Len(splitlines(text)) : strip(splitlines(text)[i]) = keyword

\* The module has a VAR section, an ASSIGN section and a next(v) := case ...
\* esac; block for every affected variable.
WellFormed ==
    /\ HasSection(module_text, <<"V","A","R">>)
    /\ HasSection(module_text, <<"A","S","S","I","G","N">>)
    /\ \A v \in FaultVariables : search_next_case(module_text, v).matched

OnlyStuckAt == \A i \in 1..Len(faults) : faults[i].type = <<"s","t","u","c","k","-","a","t">>

ProducedText == IF pc = "protected" THEN protected ELSE injected.text

OneOfEach ==
    /\ Count(ProducedText, <<"f","a","u","l","t","_","m","o","d","e"," ",":"," ","{">>) = 1
    /\ Count(ProducedText, <<"i","n","i","t","(","f","a","u","l","t","_","m","o","d","e",")"," ",":","=">>) = 1
    /\ Count(ProducedText, <<"n","e","x","t","(","f","a","u","l","t","_","m","o","d","e",")"," ",":","=">>) = 1
    /\ IsFirstOccurrenceEnum(DeclaredModes(ProducedText), faults)

\* C2 as claimed: for every fault list whose faults are all 'stuck-at',
\* making the engine and rewriting a well-formed module raises nothing and
\* gives one declaration, one init and one next of fault_mode, with the
\* enumeration in first-occurrence order.
C2_AsClaimed ==
    (via = "engine" /\ OnlyStuckAt /\ WellFormed) =>
        /\ pc # "raised"
        /\ Rewritten => OneOfEach

\* What the code does give: C2 for every fault list that is not empty.
C2_NonEmptySpecRewrites ==
    (via = "engine" /\ faults # <<>> /\ OnlyStuckAt /\ WellFormed) =>
        /\ pc # "raised"
        /\ Rewritten => OneOfEach

(***************************************************************************)
(* C3                                                                      *)
(***************************************************************************)

\* C3: every call of get_fault_mode_enum returns none followed by
\* stuck_<value> for each distinct value, first occurrence kept, in
\* first-occurrence order, joined with ", "; and all calls on the same fault
\* list return the same thing.
C3_EnumFirstOccurrence ==
    \A i \in 1..Len(calls) :
        /\ IsFirstOccurrenceEnum(calls[i].modes, faults)
        /\ LET parts == split_on(calls[i].result, <<",">>)
           IN  [k \in 1..Len(parts) |-> strip(parts[k])] = calls[i].modes
        /\ \A k \in 1..Len(calls) : calls[k] = calls[i]

\* Two calls on a fault list in which a value occurs twice.
C3_Witness ==
    /\ Len(calls) >= 2
    /\ Len(faults) = 2
    /\ faults[1].value = faults[2].value
    /\ Len(calls[1].modes) = 2

(***************************************************************************)
(* C4                                                                      *)
(***************************************************************************)

NextFaultModes == CaseValues(Branches(CaseBody(protected, <<"f","a","u","l","t","_","m","o","d","e">>)), fault_mode)

\* C4: in the generated model fault_mode starts at none; from none a step may
\* give any value of the declared enumeration, none included; and once
\* fault_mode is not none every step keeps it.
C4_FaultModeLatches ==
    /\ [](pc = "running" /\ steps = 0 => fault_mode = <<"n","o","n","e">>)
    /\ [](pc = "running" /\ fault_mode = <<"n","o","n","e">>
            => NextFaultModes = Range(DeclaredModes(protected)))
    /\ [][pc = "running" /\ fault_mode # <<"n","o","n","e">> => fault_mode' = fault_mode]_vars

\* The generated model has stepped twice with a fault latched, out of an
\* enumeration of three values.
C4_Witness ==
    /\ pc = "running"
    /\ steps >= 2
    /\ fault_mode # <<"n","o","n","e">>
    /\ Len(DeclaredModes(protected)) = 3

(***************************************************************************)
(* C5 and C6                                                               *)
(***************************************************************************)

ContentLines == splitlines(smv_content)

\* The (1-based) lines of the first module named exactly NominalR.
WrapperLines ==
    LET named == HeadersNamed(ContentLines, <<"N","o","m","i","n","a","l","R">>)
    IN  IF named = {} THEN {}
        ELSE SetMin(named)..ModuleEnd(ContentLines, SetMin(named))

\* The wrapper's lines of the shape "<indent><name> : process <Target>(<params>);".
TargetInstances ==
    {i \in WrapperLines :
        /\ match_instance(ContentLines[i]).matched
        /\ match_instance(ContentLines[i]).module_name = target_module}

\* C5 as claimed: with a redundancy count N >= 2 and a NominalR wrapper with
\* one instance line of the target module, the result holds in its place the
\* N lines <name>_1 ... <name>_N with the line's indentation, module and
\* parameters, and every other line of the model is unchanged.
C5_AsClaimed ==
    (pc = "replicated" /\ redundancy >= 2 /\ Cardinality(TargetInstances) = 1) =>
        LET k == SetMin(TargetInstances)
            o == match_instance(ContentLines[k])
            R == splitlines(modified_content)
            N == redundancy
        IN  /\ Len(R) = Len(ContentLines) + N - 1
            /\ \A i \in 1..(k - 1) : R[i] = ContentLines[i]
            /\ \A i \in (k + 1)..Len(ContentLines) : R[i + N - 1] = ContentLines[i]
            /\ \A j \in 1..N :
                  LET m == match_instance(R[k + j - 1])
                  IN  /\ m.matched
                      /\ m.indent = o.indent
                      /\ m.instance_name = o.instance_name \o <<"_">> \o str_int(j)
                      /\ m.module_name = target_module
                      /\ m.params = o.params

\* No header and no instance line of the text names a module whose name
\* merely starts with the wrapper's or the target's.
NoNameClash ==
    /\ \A i \in 1..Len(ContentLines) :
          /\ IsHeader(ContentLines[i])
               => \A nm \in {<<"N","o","m","i","n","a","l","R">>, target_module} :
                     startswith(HeaderName(ContentLines[i]), nm)
                        => HeaderName(ContentLines[i]) = nm
          /\ contains(ContentLines[i], <<":"," ","p","r","o","c","e","s","s"," ">> \o target_module)
               => \/ ~match_instance(ContentLines[i]).matched
                  \/ match_instance(ContentLines[i]).module_name = target_module

\* What the code does give: C5 for the texts without such a clash.
C5_WithoutNameClash == NoNameClash => C5_AsClaimed

\* C6 as claimed: when the count is <= 1, or the text has no module named
\* NominalR, or no line of the wrapper contains ": process <Target>", the
\* result is the input.
C6_AsClaimed ==
    pc = "replicated" =>
        ((\/ redundancy <= 1
          \/ WrapperLines = {}
          \/ \A i \in WrapperLines :
                ~contains(ContentLines[i], <<":"," ","p","r","o","c","e","s","s"," ">> \o target_module))
            => modified_content = smv_content)

C6_WithoutNameClash == NoNameClash => C6_AsClaimed

(***************************************************************************)
(* C7                                                                      *)
(***************************************************************************)

HasAssign(lines, s) ==
    \E i \in s..ModuleEnd(lines, s) : startswith(strip(lines[i]), <<"A","S","S","I","G","N">>)

\* The model read holds the target module, and without an ASSIGN section.
TargetLacksAssign ==
    /\ pc \notin {"args", "exit", "parse", "load"}
    /\ smv_content # <<>>
    /\ HeadersNamed(ContentLines, target_module) # {}
    /\ \A s \in HeadersNamed(ContentLines, target_module) : ~HasAssign(ContentLines, s)

\* C7 as claimed: the output is written only by the last stage, after every
\* earlier stage completed; a run that aborted wrote nothing; and a model
\* whose target module has no ASSIGN section is never written out.
C7_AsClaimed ==
    /\ out_file.opened =>
          /\ pc = "done"
          /\ _create_injector(faults)
          /\ inject(faults, target_module, smv_content).ok
    /\ pc \in {"exit", "aborted"} => ~out_file.opened
    /\ TargetLacksAssign => pc \notin {"redundancy", "save", "done"}

\* No module of the model read has a name that merely starts with the target's.
NoTargetClash ==
    \A i \in 1..Len(ContentLines) :
        (IsHeader(ContentLines[i]) /\ startswith(HeaderName(ContentLines[i]), target_module))
            => HeaderName(ContentLines[i]) = target_module

\* What the code does give: C7 for the models without such a module.
C7_WithoutNameClash == NoTargetClash => C7_AsClaimed

(***************************************************************************)
(* C8                                                                      *)
(***************************************************************************)

\* C8 as claimed: find_module returns [start, end) with start the header of
\* the module named exactly module_name and end the next line whose stripped
\* text starts with "MODULE " (or the number of lines), and raises when no
\* module has that name.
C8_AsClaimed ==
    pc = "located" =>
        LET named == HeadersNamed(ContentLines, target_module)
        IN  IF named = {} THEN ~found.ok
            ELSE /\ found.ok
                 /\ found.start = SetMin(named) - 1
                 /\ found.end = ModuleEnd(ContentLines, SetMin(named))

\* What the code does give: start is the first line whose stripped text
\* starts with "MODULE <module_name>", whatever follows the name.
C8_FirstPrefixMatch ==
    pc = "located" =>
        LET hits == {i \in 1..Len(ContentLines) :
                        startswith(strip(ContentLines[i]), <<"M","O","D","U","L","E"," ">> \o target_module)}
        IN  IF hits = {} THEN ~found.ok
            ELSE /\ found.ok
                 /\ found.start = SetMin(hits) - 1
                 /\ found.end = ModuleEnd(ContentLines, SetMin(hits))

(***************************************************************************)
(* C9                                                                      *)
(***************************************************************************)

Flips(action) == contains(action, <<"!","r","e","q","u","e","s","t","_","t","o","g","g","l","e">>)

\* guard is "fault_mode = none &" followed by the guard it had.
GuardedByNone(guard, original) ==
    /\ startswith(guard, <<"f","a","u","l","t","_","m","o","d","e"," ","="," ","n","o","n","e"," ","&">>)
    /\ strip(Tail_from(guard, Len(<<"f","a","u","l","t","_","m","o","d","e"," ","="," ","n","o","n","e"," ","&">>) + 1)) = original

\* C9 as claimed: without a next(request_toggle) case block the text is
\* returned unchanged; with one, every branch whose action negates
\* request_toggle gets "fault_mode = none" conjoined in front of its guard,
\* every other branch is left as it was, and so is the text outside the block.
C9_AsClaimed ==
    pc = "protected" =>
        LET m0  == search_next_case(injected.text, <<"r","e","q","u","e","s","t","_","t","o","g","g","l","e">>)
            m1  == search_next_case(protected, <<"r","e","q","u","e","s","t","_","t","o","g","g","l","e">>)
            old == Branches(CaseBody(injected.text, <<"r","e","q","u","e","s","t","_","t","o","g","g","l","e">>))
            new == Branches(CaseBody(protected, <<"r","e","q","u","e","s","t","_","t","o","g","g","l","e">>))
        IN  IF ~m0.matched THEN protected = injected.text
            ELSE /\ m1.matched
                 /\ SubSeq(protected, 1, m1.cases - 1) = SubSeq(injected.text, 1, m0.cases - 1)
                 /\ Tail_from(protected, m1.esac) = Tail_from(injected.text, m0.esac)
                 /\ Len(new) = Len(old)
                 /\ \A i \in 1..Len(old) :
                       IF Flips(old[i].action)
                       THEN /\ new[i].action = old[i].action
                            /\ GuardedByNone(new[i].guard, old[i].guard)
                       ELSE new[i] = old[i]

\* What the code does give: the guard is added to the branches written on
\* one line that holds "!request_toggle" anywhere.
OneLineBranches ==
    LET body  == CaseBody(injected.text, <<"r","e","q","u","e","s","t","_","t","o","g","g","l","e">>)
        lines == split_nl(body)
    IN  \A i \in 1..Len(lines) :
           contains(lines[i], <<"!","r","e","q","u","e","s","t","_","t","o","g","g","l","e">>)
              => /\ contains(lines[i], <<":">>)
                 /\ Flips(split_colon(lines[i])[2])

C9_ForOneLineBranches == OneLineBranches => C9_AsClaimed

(***************************************************************************)
(* C10                                                                     *)
(***************************************************************************)

\* The line (1-based) where the injected next(fault_mode) assignment
\* starts; it is seven lines long.
NextFaultModeLine(R) == FirstLineStarting(R, 0, <<"n","e","x","t","(","f","a","u","l","t","_","m","o","d","e",")">>) + 1

\* The lines after the ASSIGN header (line a) that hold an init assignment
\* the module had.
ExistingInits(R, a) ==
    {i \in (a + 1)..Len(R) :
        contains(R[i], <<"i","n","i","t","(">>) /\ ~contains(R[i], <<"i","n","i","t","(","f","a","u","l","t","_","m","o","d","e",")">>)}

\* The lines after the ASSIGN header that start a next assignment the module
\* had.
ExistingNexts(R, a) ==
    {i \in (a + 1)..Len(R) :
        contains(R[i], <<"n","e","x","t","(">>) /\ ~contains(R[i], <<"n","e","x","t","(","f","a","u","l","t","_","m","o","d","e",")">>)}

\* The line where the assignment that starts on line i ends: line i when it
\* holds the ";", else the line of the "esac;" that closes its case block.
AssignmentEnd(R, i) ==
    IF contains(R[i], <<";">>) THEN i
    ELSE SetMin({j \in i..Len(R) : contains(R[j], <<"e","s","a","c",";">>)} \cup {Len(R)})

\* With no next-state assignment in the section: right after the last init
\* assignment, or, with no init either, right after the injected
\* init(fault_mode) (and its blank line) that follows the header.
AfterLastInit(R, p, a, inits) ==
    p = IF inits # {} THEN AssignmentEnd(R, SetMax(inits)) + 1 ELSE a + 3

\* The same, counting only the line on which the last init assignment starts.
AfterLastInitLine(p, a, inits) ==
    p = IF inits # {} THEN SetMax(inits) + 1 ELSE a + 3

\* C10 as claimed: the injected next(fault_mode) comes after every existing
\* init assignment and before the first existing next assignment; with no
\* next assignment, right after the last init assignment or the header.
C10_AsClaimed ==
    Rewritten =>
        LET R     == splitlines(injected.text)
            a     == FirstLineStarting(R, 0, <<"A","S","S","I","G","N">>) + 1
            p     == NextFaultModeLine(R)
            inits == ExistingInits(R, a)
            nexts == ExistingNexts(R, a)
        IN  /\ \A i \in inits : i < p
            /\ \A j \in nexts : p < j
            /\ nexts = {} => AfterLastInit(R, p, a, inits)

\* What the code does give: the injected next(fault_mode) comes right before
\* the first existing next assignment, after the init assignments that precede
\* that one; with no next assignment, right after the line on which the last
\* init assignment starts.
C10_BeforeFirstNext ==
    Rewritten =>
        LET R     == splitlines(injected.text)
            a     == FirstLineStarting(R, 0, <<"A","S","S","I","G","N">>) + 1
            p     == NextFaultModeLine(R)
            inits == ExistingInits(R, a)
            nexts == ExistingNexts(R, a)
        IN  /\ \A j \in nexts : p < j
            /\ nexts # {} =>
                  /\ SetMin(nexts) = p + 7
                  /\ \A i \in inits : i < SetMin(nexts) => i < p
            /\ nexts = {} => AfterLastInitLine(p, a, inits)

=============================================================================
